---- MODULE Spec2Model ----
(***************************************************************************)
(* QR code styling pipeline of QrCodeGenerator-React.                      *)
(*                                                                         *)
(* The model follows client/src/lib/qrCodeGenerator.ts (generateQrCode and *)
(* its stages applyQrCodeStyling, addCenterImageToQrCode, addTextToQrCode),*)
(* client/src/lib/qrCodeStyling.ts (the library based pipeline) and the    *)
(* options QuickQrGenerator.tsx passes to generateQrCode.                   *)
(*                                                                         *)
(* An image (a data URL in the code) is the sequence of the layers that    *)
(* produced it; Pixel computes the colour of one of its pixels from that   *)
(* sequence the way the canvas calls of the code paint it.  A pixel is     *)
(* painted by a fill when its centre lies in the filled shape.             *)
(***************************************************************************)
EXTENDS Integers, Sequences, FiniteSets, TLC

VARIABLES
  entry,     \* the generate entry point that was called
  opts,      \* its options argument
  pc,        \* the callback or continuation the call waits for
  img,       \* qrCodeDataUrl of generateQrCode
  work,      \* the framed data URL applyQrCodeStyling holds between its two loads
  ecLevel,   \* errorCorrectionLevel handed to the encoder
  encCalls,  \* number of encoder invocations
  outcome,   \* state of the promise generateQrCode returned
  stageIn,   \* the image each stage was given
  stageOut,  \* the image each stage resolved with
  fault,     \* the failure that hit each stage
  stages,    \* the stages in the order they did their work
  layers,    \* the layers in the order they were painted
  other,     \* a second call of generateQrCode, between two of its callbacks
  generatedQrCode,  \* state of QuickQrGenerator: the image it displays
  issued     \* the options of the Generate requests of QuickQrGenerator, in click order

vars == <<entry, opts, pc, img, work, ecLevel, encCalls, outcome,
          stageIn, stageOut, fault, stages, layers, other, generatedQrCode, issued>>

-----------------------------------------------------------------------------
(* Bounds of the model *)

\* side of the encoded symbol in modules (a version 1 symbol has 21)
SymbolSize == 21
\* largest quiet-zone margin, in modules, options.margin is drawn from
MaxMargin == 4
\* pixels per module of the encoder's raster (options.size / module count)
ModulePx == 4

\* sub-pixel units per pixel: resolves the /2, /3, /5, /20, /100 and *1.5
\* of the code's geometry in integers
Unit == 2 * 3 * 100

-----------------------------------------------------------------------------
(* Options *)

Unset == "unset"

\* JavaScript truthiness of an optional string option
Truthy(s) == s # Unset /\ s # ""

DotStyles == {Unset, "square", "dots", "rounded", "classy"}
CornerStyles == {Unset, "square", "rounded", "extraRounded"}
FrameStyles == {Unset, "none", "simple", "double"}
CenterImages == {Unset, "", "logo"}
FrameColors == {Unset}
\* options.frameWidth; 0 stands for a missing value
FrameWidths == {0}
\* options.cornerRadius; 0 stands for a missing value too (both are falsy)
CornerRadii == {0}
\* options.centerImageSize; 0 stands for a missing value too
CenterImageSizes == {20}
\* options.centerImageIsClipArt
ClipArtFlags == {FALSE}
Margins == {2, MaxMargin}

\* a string of the program is the sequence of its characters
Alphabet == <<"a", "b", "c", "d", "e", "f", "g", "h", "i", "j">>

\* the n characters a b c ... j a b ...
Text(n) == [i \in 1..n |-> Alphabet[((i - 1) % Len(Alphabet)) + 1]]

\* a caption argument that is undefined or '' (the code tests only its truthiness)
NoText == << >>

\* the caption argument of the call: displayText || text for generateQrCode of
\* qrCodeGenerator.ts, displayText for that of qrCodeStyling.ts
DisplayTexts == {NoText, Text(7)}

QrCodeOptions ==
  [dotStyle : DotStyles, cornerStyle : CornerStyles, frameStyle : FrameStyles,
   centerImage : CenterImages, includeText : BOOLEAN,
   frameColor : FrameColors, frameWidth : FrameWidths, cornerRadius : CornerRadii,
   centerImageSize : CenterImageSizes, centerImageIsClipArt : ClipArtFlags,
   displayText : DisplayTexts,
   margin : Margins, px : {ModulePx}, seed : {0, 1}]

\* the options object generateSingleQrCode builds: no style fields at all
IsQuickOptions(o) ==
  /\ o.dotStyle = Unset /\ o.cornerStyle = Unset /\ o.frameStyle = Unset
  /\ o.frameColor = Unset /\ o.frameWidth = 0 /\ o.cornerRadius = 0
  /\ o.centerImage # ""
  /\ (o.centerImageIsClipArt => Truthy(o.centerImage))

-----------------------------------------------------------------------------
(* Error-correction policy *)

Levels == <<"L", "M", "Q", "H">>

LevelRank(l) == CHOOSE i \in 1..4 : Levels[i] = l

\* a policy that forgets the centre image
needsHighErrorCorrectionStylesOnly(o) ==
  \/ o.cornerStyle # "square"
  \/ o.dotStyle # "square"


needsHighErrorCorrection(o) ==
  \/ Truthy(o.centerImage)
  \/ o.cornerStyle # "square"
  \/ o.dotStyle # "square"

\* a policy that forgets the pair dot style + centre image
needsHighestErrorCorrectionTwoPairs(o) ==
  \/ (o.cornerStyle # "square" /\ o.dotStyle # "square")
  \/ (o.cornerStyle # "square" /\ Truthy(o.centerImage))


needsHighestErrorCorrection(o) ==
  \/ (o.cornerStyle # "square" /\ o.dotStyle # "square")
  \/ (o.cornerStyle # "square" /\ Truthy(o.centerImage))
  \/ (o.dotStyle # "square" /\ Truthy(o.centerImage))

\* the level generateQrCode of qrCodeGenerator.ts passes to QRCode.toDataURL
errorCorrectionLevel(o) ==
  IF needsHighestErrorCorrection(o) THEN "H"
  ELSE IF needsHighErrorCorrection(o) THEN "Q" ELSE "M"

\* the level generateStyledQrCode hands to the styling library
styledErrorCorrectionLevel(o) == "H"

\* the styling features of an options object that are switched on
\* (a style counts when it is set and not square, as applyQrCodeStyling reads it)
ActiveFeatures(o) ==
  (IF Truthy(o.dotStyle) /\ o.dotStyle # "square" THEN {"dot"} ELSE {})
  \cup (IF Truthy(o.cornerStyle) /\ o.cornerStyle # "square" THEN {"corner"} ELSE {})
  \cup (IF Truthy(o.centerImage) THEN {"center"} ELSE {})

-----------------------------------------------------------------------------
(* The module grid the encoder returns *)

FinderDark(i, j) ==
  \/ i \in {0, 6} \/ j \in {0, 6}
  \/ (i \in 2..4 /\ j \in 2..4)

\* origins (row, column) of the three finder patterns of the symbol
FinderOrigins == {<<0, 0>>, <<0, SymbolSize - 7>>, <<SymbolSize - 7, 0>>}

\* is module (r, c) dark: finder patterns, separators and timing patterns as
\* the QR layout fixes them, a data pattern chosen by seed elsewhere
GridDark(seed, r, c) ==
  IF \E f \in FinderOrigins : r - f[1] \in 0..6 /\ c - f[2] \in 0..6
  THEN LET f == CHOOSE f \in FinderOrigins : r - f[1] \in 0..6 /\ c - f[2] \in 0..6
       IN FinderDark(r - f[1], c - f[2])
  ELSE IF \E f \in FinderOrigins : r - f[1] \in -1..7 /\ c - f[2] \in -1..7
  THEN FALSE
  ELSE IF r = 6 \/ c = 6 THEN (r + c) % 2 = 0
  ELSE ((r \div 2) + c + seed) % 2 = 0

\* the first image of the pipeline: the raster QRCode.toDataURL returns
BaseImage(o) == << [k |-> "base", margin |-> o.margin, px |-> o.px, seed |-> o.seed] >>

NoImg == << >>

-----------------------------------------------------------------------------
(* Images: sizes *)

\* colours: the foreground, the background and an explicit frame colour
IsLightColor(c) == c = "bg"

\* does the rectangle [x0, x0 + w) x [y0, y0 + h) hold the point (all in units)
InRect(cx, cy, x0, y0, w, h) ==
  /\ cx >= x0 /\ cx < x0 + w
  /\ cy >= y0 /\ cy < y0 + h

\* centre of pixel p, in units
Centre(p) == p * Unit + Unit \div 2

\* frameSize = Math.floor(qrImage.width * (frameWidthPercent / 100)), percent fixed at 3
frameWidthPercent == 3

FrameSize(w) == (w * frameWidthPercent) \div 100

\* height the caption stage adds below the image
CaptionStrip == 40

RECURSIVE ImgW(_)
ImgW(im) ==
  LET top == im[Len(im)]
      under == SubSeq(im, 1, Len(im) - 1)
  IN IF top.k = "base" THEN (SymbolSize + 2 * top.margin) * top.px
     ELSE IF top.k = "frame" THEN ImgW(under) + 2 * FrameSize(ImgW(under))
     ELSE ImgW(under)

RECURSIVE ImgH(_)
ImgH(im) ==
  LET top == im[Len(im)]
      under == SubSeq(im, 1, Len(im) - 1)
  IN IF top.k = "base" THEN (SymbolSize + 2 * top.margin) * top.px
     ELSE IF top.k = "frame" THEN ImgH(under) + 2 * FrameSize(ImgW(under))
     ELSE IF top.k = "caption" THEN ImgH(under) + CaptionStrip
     ELSE ImgH(under)

-----------------------------------------------------------------------------
(* Images: pixels *)

RECURSIVE Pixel(_, _, _)

\* the raster of the encoder: a module is a px x px block of one colour
BasePixel(b, x, y) ==
  LET o == b.margin * b.px
      n == SymbolSize * b.px
  IN IF x >= o /\ x < o + n /\ y >= o /\ y < o + n
        /\ GridDark(b.seed, (y - o) \div b.px, (x - o) \div b.px)
     THEN "fg" ELSE "bg"

\* the framed canvas of applyQrCodeStyling / addFrameToQrCode
FramePixel(top, under, x, y) ==
  LET w == ImgW(under)
      h == ImgH(under)
      frameSize == FrameSize(w)
      innerFrameSize == (frameSize * Unit) \div 2
      cw == (w + 2 * frameSize) * Unit
      ch == (h + 2 * frameSize) * Unit
  IN IF x >= frameSize /\ x < frameSize + w /\ y >= frameSize /\ y < frameSize + h
     THEN Pixel(under, x - frameSize, y - frameSize)   \* drawImage(qrImage, frameSize, frameSize)
     ELSE IF top.style = "simple" THEN top.color
     ELSE IF top.style = "double"
     THEN IF InRect(Centre(x), Centre(y), innerFrameSize, innerFrameSize,
                    cw - 2 * innerFrameSize, ch - 2 * innerFrameSize)
          THEN "bg" ELSE top.color
     ELSE "bg"

\* moduleEstimate = gridSize = Math.floor(width / 25)
moduleEstimate(w) == w \div 25

\* finderPositions, in units: <<x, y, size>> of the top-left, top-right and
\* bottom-left box
finderPositions(w, h) ==
  LET me == moduleEstimate(w)
      finderSize == me * 7 * Unit
      padding == (me * Unit) \div 2
  IN << <<padding, padding, finderSize>>,
        <<w * Unit - finderSize - padding, padding, finderSize>>,
        <<padding, h * Unit - finderSize - padding, finderSize>> >>

\* isInFinderArea(x, y) of the module loop, x and y in pixels
isInFinderArea(w, h, x, y) ==
  LET safetyMargin == moduleEstimate(w) * Unit
      fp == finderPositions(w, h)
  IN \E i \in 1..3 :
       /\ x * Unit >= fp[i][1] - safetyMargin
       /\ x * Unit <= fp[i][1] + fp[i][3] + safetyMargin
       /\ y * Unit >= fp[i][2] - safetyMargin
       /\ y * Unit <= fp[i][2] + fp[i][3] + safetyMargin

\* is the point (dx, dy), measured from a corner of a path along its two
\* edges, cut off by quadraticCurveTo with the corner as control point
CutByQuadratic(dx, dy, r) ==
  /\ dx >= 0 /\ dy >= 0 /\ dx + dy < r
  /\ 4 * dx * dy < (r - dx - dy) * (r - dx - dy)

\* the same for the circular arc of a native roundRect
CutByArc(dx, dy, r) ==
  /\ dx >= 0 /\ dy >= 0 /\ dx < r /\ dy < r
  /\ (r - dx) * (r - dx) + (r - dy) * (r - dy) > r * r

\* does the shape painted for the dark cell at (gx, gy) cover the point
DotCovers(style, nativeRR, g, gx, gy, cx, cy) ==
  LET gu == g * Unit
      lx == cx - gx * Unit
      ly == cy - gy * Unit
  IN IF style = "dots"
     THEN LET radius == (gu * 45) \div 100
              ddx == lx - gu \div 2
              ddy == ly - gu \div 2
          IN ddx * ddx + ddy * ddy <= radius * radius
     ELSE IF style = "rounded"
     THEN LET lo == gu \div 10
              side == (gu * 8) \div 10
              cornerRadius == gu \div 5
              ex == IF lx - lo < lo + side - lx THEN lx - lo ELSE lo + side - lx
              ey == IF ly - lo < lo + side - ly THEN ly - lo ELSE lo + side - ly
          IN /\ InRect(lx, ly, lo, lo, side, side)
             /\ ~ (IF nativeRR THEN CutByArc(ex, ey, cornerRadius)
                               ELSE CutByQuadratic(ex, ey, cornerRadius))
     ELSE FALSE   \* neither branch of the loop body paints

\* the canvas after the dot styling block (lines 271-387)
DotsPixel(top, under, x, y) ==
  LET w == ImgW(under)
      h == ImgH(under)
      gridSize == moduleEstimate(w)
      gx == (x \div gridSize) * gridSize
      gy == (y \div gridSize) * gridSize
      sampleX == gx + gridSize \div 2
      sampleY == gy + gridSize \div 2
  IN IF top.dot = "none" THEN Pixel(under, x, y)
     ELSE IF isInFinderArea(w, h, gx, gy) THEN "bg"
     ELSE IF sampleX >= w \/ sampleY >= h THEN "bg"
     ELSE IF IsLightColor(Pixel(under, sampleX, sampleY)) THEN "bg"
     ELSE IF DotCovers(top.dot, top.nativeRR, gridSize, gx, gy, Centre(x), Centre(y))
     THEN "fg" ELSE "bg"

\* radius of the rounded outer corner of a finder, in units
\* (baseRadiusInModules and extraRadius of the corner styling block)
CornerRadiusUnits(cornerStyle, cornerRadius, me) ==
  LET req == IF cornerRadius = 0 THEN 10 ELSE cornerRadius
      pct == IF req < 1 THEN 1 ELSE IF req > 25 THEN 25 ELSE req
      radius == (me * Unit * pct) \div 100
  IN IF cornerStyle = "rounded" THEN radius
     ELSE IF cornerStyle = "extraRounded" THEN (radius * 3) \div 2
     ELSE 0

\* a path that rounds the same corner whatever box it is given
RoundedCornerTopLeft(i) == "tl"

\* which corner of box i the path rounds: the x === padding / y === padding tests
RoundedCorner(i) == IF i = 1 THEN "tl" ELSE IF i = 2 THEN "tr" ELSE "bl"

\* is the point inside the outer path of finder box i
InOuterPath(i, bx, by, size, r, cx, cy) ==
  LET dl == cx - bx
      dr == bx + size - cx
      dt == cy - by
      db == by + size - cy
      c == RoundedCorner(i)
  IN /\ InRect(cx, cy, bx, by, size, size)
     /\ ~ CutByQuadratic(IF c = "tr" THEN dr ELSE dl,
                         IF c = "bl" THEN db ELSE dt, r)

\* the canvas after the corner styling block (lines 389-539)
CornersPixel(top, under, x, y) ==
  LET w == ImgW(under)
      h == ImgH(under)
      me == moduleEstimate(w)
      fp == finderPositions(w, h)
      moduleSize == me * Unit
      clearPad == (me * Unit) \div 3
      r == CornerRadiusUnits(top.corner, top.cornerRadius, me)
      cx == Centre(x)
      cy == Centre(y)
      Center(i) == InRect(cx, cy, fp[i][1] + 2 * moduleSize, fp[i][2] + 2 * moduleSize,
                          fp[i][3] - 4 * moduleSize, fp[i][3] - 4 * moduleSize)
      Inner(i) == InRect(cx, cy, fp[i][1] + moduleSize, fp[i][2] + moduleSize,
                         fp[i][3] - 2 * moduleSize, fp[i][3] - 2 * moduleSize)
      Outer(i) == InOuterPath(i, fp[i][1], fp[i][2], fp[i][3], r, cx, cy)
      Cleared(i) == InRect(cx, cy, fp[i][1] - clearPad, fp[i][2] - clearPad,
                           fp[i][3] + 2 * clearPad, fp[i][3] + 2 * clearPad)
  IN IF top.corner = "none" THEN DotsPixel(top, under, x, y)
     ELSE IF \E i \in 1..3 : Center(i) THEN "fg"
     ELSE IF \E i \in 1..3 : Inner(i) THEN "bg"
     ELSE IF \E i \in 1..3 : Outer(i) THEN "fg"
     ELSE IF \E i \in 1..3 : Cleared(i) THEN "bg"
     ELSE DotsPixel(top, under, x, y)

\* a clamp to the nominal input range [1, 30] of the option
centerImgSizePercentNominal(size) ==
  LET req == IF size = 0 THEN 20 ELSE size
  IN IF req < 1 THEN 1 ELSE IF req > 30 THEN 30 ELSE req

\* centerImgSizePercent = Math.min(Math.max(options.centerImageSize || 20, 1), 25)
centerImgSizePercent(size) ==
  LET req == IF size = 0 THEN 20 ELSE size
  IN IF req < 1 THEN 1 ELSE IF req > 25 THEN 25 ELSE req

\* a background that is circular for clip art only
circularBackgroundClipArtOnly(clip, pct) == clip

\* options.centerImageIsClipArt || centerImgSizePercent < 15: the background
\* is a circle, otherwise a rounded rectangle
circularBackground(clip, pct) == clip \/ pct < 15

\* the canvas of addCenterImageToQrCode after the centre image is drawn
OverlayPixel(top, under, x, y) ==
  LET w == ImgW(under) * Unit
      h == ImgH(under) * Unit
      pct == centerImgSizePercent(top.size)
      centerImgSize == (pct * w) \div 100
      centerX == (w - centerImgSize) \div 2
      centerY == (h - centerImgSize) \div 2
      cx == Centre(x)
      cy == Centre(y)
      imageDrawSize == IF top.clip THEN centerImgSize ELSE (centerImgSize * 95) \div 100
      radius == (centerImgSize * 6) \div 10
      padding == centerImgSize \div 10
      rr == (centerImgSize * 15) \div 100
      side == centerImgSize + 2 * padding
      ex == IF cx - (centerX - padding) < centerX - padding + side - cx
            THEN cx - (centerX - padding) ELSE centerX - padding + side - cx
      ey == IF cy - (centerY - padding) < centerY - padding + side - cy
            THEN cy - (centerY - padding) ELSE centerY - padding + side - cy
  IN IF InRect(cx, cy, (w - imageDrawSize) \div 2, (h - imageDrawSize) \div 2,
               imageDrawSize, imageDrawSize)
     THEN "logo"
     ELSE IF circularBackground(top.clip, pct)
     THEN IF /\ InRect(cx, cy, w \div 2 - radius, h \div 2 - radius, 2 * radius, 2 * radius)
             /\ (cx - w \div 2) * (cx - w \div 2) + (cy - h \div 2) * (cy - h \div 2)
                  <= radius * radius
          THEN "bg" ELSE Pixel(under, x, y)
     ELSE IF /\ InRect(cx, cy, centerX - padding, centerY - padding, side, side)
             /\ ~ (IF top.nativeRR THEN CutByArc(ex, ey, rr) ELSE CutByQuadratic(ex, ey, rr))
          THEN "bg" ELSE Pixel(under, x, y)

\* fontSize = Math.max(12, Math.min(16, Math.floor(image.width / 30)))
fontSize(w) ==
  LET f == w \div 30
      g == IF f < 16 THEN f ELSE 16
  IN IF g > 12 THEN g ELSE 12

\* a caption whose baseline lies five pixels below the image
CaptionBaselineAtEdge(h) == h + 5

\* the y of fillText: the alphabetic baseline of the caption
CaptionBaseline(h) == h + 25

\* can fillText touch the point: the caption is centred on the middle of the
\* canvas; a glyph is at most one em wide and reaches at most one em above
\* the baseline and half an em below it
InCaptionText(top, under, cx, cy) ==
  LET em == fontSize(ImgW(under)) * Unit
      base == CaptionBaseline(ImgH(under)) * Unit
      half == (Len(top.text) * em) \div 2
      mid == (ImgW(under) * Unit) \div 2
  IN /\ Len(top.text) > 0
     /\ cx >= mid - half /\ cx < mid + half
     /\ cy >= base - em /\ cy < base + em \div 2

\* the canvas of addTextToQrCode: the background, the image drawn at (0, 0)
\* and the caption drawn last
CaptionPixel(top, under, x, y) ==
  IF InCaptionText(top, under, Centre(x), Centre(y)) THEN "text"
  ELSE IF y < ImgH(under) THEN Pixel(under, x, y)
  ELSE "bg"

Pixel(im, x, y) ==
  LET top == im[Len(im)]
      under == SubSeq(im, 1, Len(im) - 1)
  IN IF x < 0 \/ y < 0 \/ x >= ImgW(im) \/ y >= ImgH(im) THEN "bg"
     ELSE IF top.k = "base" THEN BasePixel(top, x, y)
     ELSE IF top.k = "frame" THEN FramePixel(top, under, x, y)
     ELSE IF top.k = "style" THEN CornersPixel(top, under, x, y)
     ELSE IF top.k = "overlay" THEN OverlayPixel(top, under, x, y)
     ELSE CaptionPixel(top, under, x, y)

\* pixel offset of the encoder's raster inside an image (frames shift it)
RECURSIVE CodeOffset(_)
CodeOffset(im) ==
  LET top == im[Len(im)]
      under == SubSeq(im, 1, Len(im) - 1)
  IN IF top.k = "base" THEN 0
     ELSE IF top.k = "frame" THEN CodeOffset(under) + FrameSize(ImgW(under))
     ELSE CodeOffset(under)

-----------------------------------------------------------------------------
(* The pipeline *)

Entries == {"generator", "quick", "styling"}
StageNames == {"style", "overlay", "caption", "frame"}

\* the overlay block placed before the styling block
PipelineOverlayFirst == <<"overlay", "style", "caption">>

\* the stage blocks of generateQrCode (qrCodeGenerator.ts) in the order of its body
Pipeline == <<"style", "overlay", "caption">>

\* the stage blocks of generateQrCode (qrCodeStyling.ts) after generateStyledQrCode
StyledPipeline == <<"frame", "caption">>

FrameRequested(o) == Truthy(o.frameStyle) /\ o.frameStyle # "none"
DotsRequested(o) == Truthy(o.dotStyle) /\ o.dotStyle # "square"
CornersRequested(o) == Truthy(o.cornerStyle) /\ o.cornerStyle # "square"

\* the if that guards each stage block
Requested(e, stage, o) ==
  IF e = "styling"
  THEN IF stage = "frame" THEN FrameRequested(o)
       ELSE o.includeText /\ o.displayText # NoText
  ELSE IF stage = "style"
       THEN Truthy(o.frameStyle) \/ Truthy(o.cornerStyle) \/ Truthy(o.dotStyle)
       ELSE IF stage = "overlay" THEN Truthy(o.centerImage)
       ELSE o.includeText

StartPc(stage) ==
  IF stage = "style" THEN "styleStart"
  ELSE IF stage = "overlay" THEN "ovlStart"
  ELSE IF stage = "caption" THEN "capStart"
  ELSE "frmStart"

\* where the call continues once `after` has resolved ("encode": the encoder)
NextPc(e, after, o) ==
  LET pl == IF e = "styling" THEN StyledPipeline ELSE Pipeline
      i == IF after = "encode" THEN 0 ELSE CHOOSE j \in 1..Len(pl) : pl[j] = after
      later == {j \in (i + 1)..Len(pl) : Requested(e, pl[j], o)}
  IN IF later = {} THEN "done"
     ELSE StartPc(pl[CHOOSE j \in later : \A m \in later : j <= m])

\* the early return of applyQrCodeStyling (lines 223-228)
NoStylingRequested(o) ==
  ~ CornersRequested(o) /\ ~ DotsRequested(o) /\ ~ FrameRequested(o)

FrameLayer(o) ==
  [k |-> "frame", style |-> o.frameStyle,
   color |-> IF Truthy(o.frameColor) THEN o.frameColor ELSE "fg"]

StyleLayer(o, dotsApplied, cornersApplied, native) ==
  [k |-> "style",
   dot |-> IF dotsApplied THEN o.dotStyle ELSE "none",
   corner |-> IF cornersApplied THEN o.cornerStyle ELSE "none",
   cornerRadius |-> o.cornerRadius, nativeRR |-> native]

OverlayLayer(o, native) ==
  [k |-> "overlay", size |-> o.centerImageSize, clip |-> o.centerImageIsClipArt,
   nativeRR |-> native]

\* displayText = text.length > 50 ? text.substring(0, 47) + '...' : text
captionDisplayText(text) ==
  IF Len(text) > 50 THEN SubSeq(text, 1, 47) \o <<".", ".", ".">> ELSE text

CaptionLayer(o) == [k |-> "caption", text |-> captionDisplayText(o.displayText)]

\* the paints of the encoder: the light colour, then the plain modules
EncoderLayers == <<"background", "base">>

\* the paints of the frame branch, in the order of the code
FrameLayers == <<"background", "frame">>

\* the corner block placed before the dot block
DotAndCornerLayersCornersFirst(dotsApplied, cornersApplied) ==
  <<"background">>
  \o (IF cornersApplied THEN <<"background", "finders">> ELSE << >>)
  \o (IF dotsApplied THEN <<"background", "modules">> ELSE << >>)

\* the paints of applyDotAndCornerStyling, in the order of the code
DotAndCornerLayers(dotsApplied, cornersApplied) ==
  <<"background">>
  \o (IF dotsApplied THEN <<"background", "modules">> ELSE << >>)
  \o (IF cornersApplied THEN <<"background", "finders">> ELSE << >>)

\* the paints of addTextToQrCode
CaptionLayers == <<"background", "caption">>

\* an onerror handler that exports the half painted canvas
CenterImageOnErrorCanvas(qrCodeDataUrl, canvasImage) == canvasImage

\* what centerImage.onerror resolves with
CenterImageOnError(qrCodeDataUrl, canvasImage) == qrCodeDataUrl

NoImages == [s \in StageNames |-> NoImg]
NoFaults == [s \in StageNames |-> "none"]

DefaultOptions ==
  [dotStyle |-> Unset, cornerStyle |-> Unset, frameStyle |-> Unset,
   centerImage |-> Unset, includeText |-> FALSE, frameColor |-> Unset,
   frameWidth |-> 0, cornerRadius |-> 0, centerImageSize |-> 20,
   centerImageIsClipArt |-> FALSE,
   displayText |-> NoText, margin |-> MaxMargin, px |-> ModulePx, seed |-> 0]

\* a call that has not been made yet
NotCalled ==
  [entry |-> "none", opts |-> DefaultOptions, pc |-> "idle", img |-> NoImg,
   work |-> NoImg, ecLevel |-> "none", encCalls |-> 0, outcome |-> "none",
   stageIn |-> NoImages, stageOut |-> NoImages, fault |-> NoFaults,
   stages |-> << >>, layers |-> << >>]

Init ==
  /\ entry = NotCalled.entry
  /\ opts = NotCalled.opts
  /\ pc = NotCalled.pc
  /\ img = NotCalled.img
  /\ work = NotCalled.work
  /\ ecLevel = NotCalled.ecLevel
  /\ encCalls = NotCalled.encCalls
  /\ outcome = NotCalled.outcome
  /\ stageIn = NotCalled.stageIn
  /\ stageOut = NotCalled.stageOut
  /\ fault = NotCalled.fault
  /\ stages = NotCalled.stages
  /\ layers = NotCalled.layers
  /\ other = NotCalled
  /\ generatedQrCode = NoImg   \* useState<string | null>(null)
  /\ issued = << >>

\* a stage resolves with `out`; generateQrCode goes on after its await
Finish(stage, out, f) ==
  LET np == NextPc(entry, stage, opts)
  IN /\ img' = out
     /\ stageOut' = [stageOut EXCEPT ![stage] = out]
     /\ fault' = [fault EXCEPT ![stage] = f]
     /\ pc' = np
     /\ outcome' = IF np = "done" THEN "resolved" ELSE outcome

\* a call of one of the generate entry points
Generate(e, o) ==
  /\ e = "quick" => IsQuickOptions(o)
  \* only the library pipeline tests displayText (the other uses displayText || text)
  /\ e # "styling" => o.displayText # NoText
  /\ entry' = e
  /\ opts' = o
  /\ outcome' = "pending"
  /\ ecLevel' = IF e = "styling" THEN styledErrorCorrectionLevel(o)
                ELSE errorCorrectionLevel(o)
  /\ pc' = IF e = "styling" THEN "libNew" ELSE "encode"
  /\ encCalls' = IF e = "styling" THEN encCalls ELSE encCalls + 1
  /\ UNCHANGED <<other, img, work, stageIn, stageOut, fault, stages, layers>>

\* QRCode.toDataURL resolves
EncodeOk ==
  /\ pc = "encode"
  /\ img' = BaseImage(opts)
  /\ stages' = Append(stages, "encode")
  /\ layers' = layers \o EncoderLayers
  /\ pc' = NextPc(entry, "encode", opts)
  /\ outcome' = IF pc' = "done" THEN "resolved" ELSE outcome
  /\ UNCHANGED <<generatedQrCode, issued>>
  /\ UNCHANGED <<other, entry, opts, work, ecLevel, encCalls, stageIn, stageOut, fault>>

\* an encoder failure answered by one more attempt
EncodeFailRetry ==
  /\ pc = "encode"
  /\ IF encCalls < 2
     THEN pc' = "encode" /\ encCalls' = encCalls + 1 /\ UNCHANGED outcome
     ELSE pc' = "done" /\ outcome' = "rejected" /\ UNCHANGED encCalls
  /\ UNCHANGED <<generatedQrCode, issued>>
  /\ UNCHANGED <<other, entry, opts, img, work, ecLevel, stageIn, stageOut, fault, stages, layers>>

\* QRCode.toDataURL rejects: the catch of generateQrCode rethrows
EncodeFail ==
  /\ pc = "encode"
  /\ pc' = "done"
  /\ outcome' = "rejected"
  /\ UNCHANGED <<generatedQrCode, issued>>
  /\ UNCHANGED <<other, entry, opts, img, work, ecLevel, encCalls, stageIn, stageOut, fault,
                 stages, layers>>

(* applyQrCodeStyling *)

\* the promise executor up to qrImage.src = qrCodeDataUrl
StyleBegin ==
  /\ pc = "styleStart"
  /\ stageIn' = [stageIn EXCEPT !["style"] = img]
  /\ \E f \in {"none", "throw"} :
       IF NoStylingRequested(opts) \/ f = "throw"
       THEN Finish("style", img,
                   IF NoStylingRequested(opts) THEN "none" ELSE f)
       ELSE /\ pc' = "styleLoadQr"
            /\ UNCHANGED <<img, stageOut, fault, outcome>>
  /\ UNCHANGED <<generatedQrCode, issued>>
  /\ UNCHANGED <<other, entry, opts, work, ecLevel, encCalls, stages, layers>>

\* qrImage.onerror
StyleQrError ==
  /\ pc = "styleLoadQr"
  /\ Finish("style", stageIn["style"], "loadQr")
  /\ UNCHANGED <<generatedQrCode, issued>>
  /\ UNCHANGED <<other, entry, opts, work, ecLevel, encCalls, stageIn, stages, layers>>

\* applyDotAndCornerStyling(currentQrImage), with the failure f it meets
DotAndCornerStyling(cur, f, native) ==
  LET qrCodeDataUrl == stageIn["style"]
      dotsApplied == DotsRequested(opts) /\ f \notin {"ctxTemp", "ctxTempCorner"}
      cornersApplied == CornersRequested(opts) /\ f \notin {"ctxCorner", "ctxTempCorner"}
  IN /\ f \in {"ctxTemp", "ctxNew", "ctxTempCorner"} => DotsRequested(opts)
     /\ f \in {"ctxCorner", "ctxTempCorner"} => CornersRequested(opts)
     /\ native => (dotsApplied /\ opts.dotStyle = "rounded" /\ f # "ctxNew")
     /\ IF f \in {"ctx", "throw"}
        THEN /\ Finish("style", qrCodeDataUrl, f)
             /\ UNCHANGED <<stages, layers>>
        ELSE IF f = "ctxNew"
        THEN \* the bare return of lines 298-301: nothing resolves the promise
             /\ pc' = "hung"
             /\ fault' = [fault EXCEPT !["style"] = f]
             /\ UNCHANGED <<img, stageOut, outcome, stages, layers>>
        ELSE /\ Finish("style",
                       Append(cur, StyleLayer(opts, dotsApplied, cornersApplied, native)), f)
             /\ stages' = Append(stages, "style")
             /\ layers' = layers \o DotAndCornerLayers(dotsApplied, cornersApplied)

DotCornerFaults ==
  {"none", "ctx", "throw", "ctxTemp", "ctxNew", "ctxCorner", "ctxTempCorner"}

\* qrImage.onload
StyleQrLoad ==
  /\ pc = "styleLoadQr"
  /\ IF FrameRequested(opts)
     THEN \E f \in {"none", "ctx", "throw"} :
            IF f # "none"
            THEN /\ Finish("style", stageIn["style"], f)
                 /\ UNCHANGED <<work, stages, layers>>
            ELSE LET dataUrl == Append(stageIn["style"], FrameLayer(opts))
                 IN /\ stages' = Append(stages, "frame")
                    /\ layers' = layers \o FrameLayers
                    /\ IF ~ CornersRequested(opts) /\ ~ DotsRequested(opts)
                       THEN /\ Finish("style", dataUrl, "none")
                            /\ UNCHANGED work
                       ELSE /\ pc' = "styleLoadFramed"
                            /\ work' = dataUrl
                            /\ UNCHANGED <<img, stageOut, fault, outcome>>
     ELSE /\ \E f \in DotCornerFaults, native \in BOOLEAN :
               DotAndCornerStyling(stageIn["style"], f, native)
          /\ UNCHANGED work
  /\ UNCHANGED <<generatedQrCode, issued>>
  /\ UNCHANGED <<other, entry, opts, ecLevel, encCalls, stageIn>>

\* framedQrImage.onerror
StyleFramedError ==
  /\ pc = "styleLoadFramed"
  /\ Finish("style", work, "loadFramed")
  /\ UNCHANGED <<generatedQrCode, issued>>
  /\ UNCHANGED <<other, entry, opts, work, ecLevel, encCalls, stageIn, stages, layers>>

\* framedQrImage.onload
StyleFramedLoad ==
  /\ pc = "styleLoadFramed"
  /\ \E f \in DotCornerFaults, native \in BOOLEAN :
       DotAndCornerStyling(work, f, native)
  /\ UNCHANGED <<generatedQrCode, issued>>
  /\ UNCHANGED <<other, entry, opts, work, ecLevel, encCalls, stageIn>>

(* addCenterImageToQrCode *)

\* the promise executor up to qrImage.src = qrCodeDataUrl
OverlayBegin ==
  /\ pc = "ovlStart"
  /\ stageIn' = [stageIn EXCEPT !["overlay"] = img]
  /\ \E f \in {"none", "throw"} :
       IF f = "throw"
       THEN Finish("overlay", img, f)
       ELSE /\ pc' = "ovlLoadQr"
            /\ UNCHANGED <<img, stageOut, fault, outcome>>
  /\ UNCHANGED <<generatedQrCode, issued>>
  /\ UNCHANGED <<other, entry, opts, work, ecLevel, encCalls, stages, layers>>

\* qrImage.onerror
OverlayQrError ==
  /\ pc = "ovlLoadQr"
  /\ Finish("overlay", stageIn["overlay"], "loadQr")
  /\ UNCHANGED <<generatedQrCode, issued>>
  /\ UNCHANGED <<other, entry, opts, work, ecLevel, encCalls, stageIn, stages, layers>>

\* qrImage.onload: draws the code, then starts the load of the centre image
OverlayQrLoad ==
  /\ pc = "ovlLoadQr"
  /\ \E f \in {"none", "ctx", "throw"} :
       IF f # "none"
       THEN Finish("overlay", stageIn["overlay"], f)
       ELSE /\ pc' = "ovlLoadCenter"
            /\ UNCHANGED <<img, stageOut, fault, outcome>>
  /\ UNCHANGED <<generatedQrCode, issued>>
  /\ UNCHANGED <<other, entry, opts, work, ecLevel, encCalls, stageIn, stages, layers>>

\* centerImage.onerror
OverlayCenterError ==
  /\ pc = "ovlLoadCenter"
  /\ \E native \in BOOLEAN :
       Finish("overlay",
              CenterImageOnError(stageIn["overlay"],
                                 Append(stageIn["overlay"], OverlayLayer(opts, native))),
              "loadCenter")
  /\ UNCHANGED <<generatedQrCode, issued>>
  /\ UNCHANGED <<other, entry, opts, work, ecLevel, encCalls, stageIn, stages, layers>>

\* centerImage.onload
OverlayCenterLoad ==
  /\ pc = "ovlLoadCenter"
  /\ \E f \in {"none", "throw"}, native \in BOOLEAN :
       /\ native => (f = "none" /\ ~ opts.centerImageIsClipArt
                     /\ centerImgSizePercent(opts.centerImageSize) >= 15)
       /\ IF f = "throw"
          THEN /\ Finish("overlay", stageIn["overlay"], f)
               /\ UNCHANGED <<stages, layers>>
          ELSE /\ Finish("overlay", Append(stageIn["overlay"], OverlayLayer(opts, native)), f)
               /\ stages' = Append(stages, "overlay")
               /\ layers' = Append(layers, "overlay")
  /\ UNCHANGED <<generatedQrCode, issued>>
  /\ UNCHANGED <<other, entry, opts, work, ecLevel, encCalls, stageIn>>

(* addTextToQrCode (both files) *)

CaptionBegin ==
  /\ pc = "capStart"
  /\ stageIn' = [stageIn EXCEPT !["caption"] = img]
  /\ \E f \in {"none", "throw"} :
       IF f = "throw"
       THEN Finish("caption", img, f)
       ELSE /\ pc' = "capLoad"
            /\ UNCHANGED <<img, stageOut, fault, outcome>>
  /\ UNCHANGED <<generatedQrCode, issued>>
  /\ UNCHANGED <<other, entry, opts, work, ecLevel, encCalls, stages, layers>>

\* image.onerror
CaptionError ==
  /\ pc = "capLoad"
  /\ Finish("caption", stageIn["caption"], "loadQr")
  /\ UNCHANGED <<generatedQrCode, issued>>
  /\ UNCHANGED <<other, entry, opts, work, ecLevel, encCalls, stageIn, stages, layers>>

\* image.onload
CaptionLoad ==
  /\ pc = "capLoad"
  /\ \E f \in {"none", "ctx", "throw"} :
       IF f # "none"
       THEN /\ Finish("caption", stageIn["caption"], f)
            /\ UNCHANGED <<stages, layers>>
       ELSE /\ Finish("caption", Append(stageIn["caption"], CaptionLayer(opts)), f)
            /\ stages' = Append(stages, "caption")
            /\ layers' = layers \o CaptionLayers
  /\ UNCHANGED <<generatedQrCode, issued>>
  /\ UNCHANGED <<other, entry, opts, work, ecLevel, encCalls, stageIn>>

(* qrCodeStyling.ts: generateStyledQrCode and addFrameToQrCode *)

\* new QRCodeStyling(...) and update(...): a throw is caught and rethrown
LibConstruct ==
  /\ pc = "libNew"
  /\ encCalls' = encCalls + 1
  /\ \E f \in {"none", "throw"} :
       IF f = "throw"
       THEN /\ pc' = "done"
            /\ outcome' = "rejected"
       ELSE /\ pc' = "libRaw"
            /\ UNCHANGED outcome
  /\ UNCHANGED <<generatedQrCode, issued>>
  /\ UNCHANGED <<other, entry, opts, img, work, ecLevel, stageIn, stageOut, fault, stages, layers>>

\* getRawData('png') resolves with a blob: the FileReader is started
LibRawBlob ==
  /\ pc = "libRaw"
  /\ pc' = "libRead"
  /\ UNCHANGED <<generatedQrCode, issued>>
  /\ UNCHANGED <<other, entry, opts, img, work, ecLevel, encCalls, outcome, stageIn, stageOut,
                 fault, stages, layers>>

\* getRawData resolves without a blob, or rejects: the throw inside then() and
\* the rejection settle only the promise then() returned, which nobody holds
LibRawNoBlob ==
  /\ pc = "libRaw"
  /\ pc' = "hung"
  /\ UNCHANGED <<generatedQrCode, issued>>
  /\ UNCHANGED <<other, entry, opts, img, work, ecLevel, encCalls, outcome, stageIn, stageOut,
                 fault, stages, layers>>

\* reader.onload: generateStyledQrCode resolves
LibReadLoad ==
  /\ pc = "libRead"
  /\ img' = BaseImage(opts)
  /\ stages' = stages \o <<"encode", "style">>
  /\ layers' = layers \o EncoderLayers
  /\ pc' = NextPc(entry, "encode", opts)
  /\ outcome' = IF pc' = "done" THEN "resolved" ELSE outcome
  /\ UNCHANGED <<generatedQrCode, issued>>
  /\ UNCHANGED <<other, entry, opts, work, ecLevel, encCalls, stageIn, stageOut, fault>>

\* the reader fails: it has no onerror handler
LibReadError ==
  /\ pc = "libRead"
  /\ pc' = "hung"
  /\ UNCHANGED <<generatedQrCode, issued>>
  /\ UNCHANGED <<other, entry, opts, img, work, ecLevel, encCalls, outcome, stageIn, stageOut,
                 fault, stages, layers>>

FrameBegin ==
  /\ pc = "frmStart"
  /\ stageIn' = [stageIn EXCEPT !["frame"] = img]
  /\ \E f \in {"none", "throw"} :
       IF f = "throw"
       THEN Finish("frame", img, f)
       ELSE /\ pc' = "frmLoad"
            /\ UNCHANGED <<img, stageOut, fault, outcome>>
  /\ UNCHANGED <<generatedQrCode, issued>>
  /\ UNCHANGED <<other, entry, opts, work, ecLevel, encCalls, stages, layers>>

FrameError ==
  /\ pc = "frmLoad"
  /\ Finish("frame", stageIn["frame"], "loadQr")
  /\ UNCHANGED <<generatedQrCode, issued>>
  /\ UNCHANGED <<other, entry, opts, work, ecLevel, encCalls, stageIn, stages, layers>>

FrameLoad ==
  /\ pc = "frmLoad"
  /\ \E f \in {"none", "ctx", "throw"} :
       IF f # "none"
       THEN /\ Finish("frame", stageIn["frame"], f)
            /\ UNCHANGED <<stages, layers>>
       ELSE /\ Finish("frame", Append(stageIn["frame"], FrameLayer(opts)), f)
            /\ stages' = Append(stages, "frame")
            /\ layers' = layers \o FrameLayers
  /\ UNCHANGED <<generatedQrCode, issued>>
  /\ UNCHANGED <<other, entry, opts, work, ecLevel, encCalls, stageIn>>

Next ==
  \/ (/\ pc = "idle" /\ UNCHANGED <<generatedQrCode, issued>>
      /\ \E e \in Entries, o \in QrCodeOptions : Generate(e, o))
  \/ EncodeOk
  \/ EncodeFail
  \/ StyleBegin
  \/ StyleQrError
  \/ StyleQrLoad
  \/ StyleFramedError
  \/ StyleFramedLoad
  \/ OverlayBegin
  \/ OverlayQrError
  \/ OverlayQrLoad
  \/ OverlayCenterError
  \/ OverlayCenterLoad
  \/ CaptionBegin
  \/ CaptionError
  \/ CaptionLoad
  \/ LibConstruct
  \/ LibRawBlob
  \/ LibRawNoBlob
  \/ LibReadLoad
  \/ LibReadError
  \/ FrameBegin
  \/ FrameError
  \/ FrameLoad

Spec == Init /\ [][Next]_vars

\* every started image load fires onload or onerror, every pending
\* continuation runs: a step that can be taken is taken in the end
FairSpec == Spec /\ WF_vars(Next)

-----------------------------------------------------------------------------
(* generateQrCode of qrCodeGenerator.ts with the numeric inputs of the      *)
(* overlay and caption stages drawn from wide sets                          *)

\* the callbacks and continuations of one call of generateQrCode
GeneratorStep ==
  \/ EncodeOk
  \/ EncodeFail
  \/ StyleBegin
  \/ StyleQrError
  \/ StyleQrLoad
  \/ StyleFramedError
  \/ StyleFramedLoad
  \/ OverlayBegin
  \/ OverlayQrError
  \/ OverlayQrLoad
  \/ OverlayCenterError
  \/ OverlayCenterLoad
  \/ CaptionBegin
  \/ CaptionError
  \/ CaptionLoad

\* options.centerImageSize: missing (0), negative, inside, at and beyond the limits
WideCenterImageSizes == {-5, 0, 1, 10, 14, 15, 25, 26, 30, 99}

\* captions around the truncation limit
LongTexts == {Text(1), Text(47), Text(50), Text(51), Text(60)}

\* rasters wide enough for every font size the caption stage chooses
WidePx == {ModulePx, 4 * ModulePx, 5 * ModulePx}

CaptionOverlayOptions ==
  [dotStyle : {"square"}, cornerStyle : {"square"}, frameStyle : {Unset, "simple"},
   centerImage : {"logo"}, includeText : {FALSE},
   frameColor : FrameColors, frameWidth : FrameWidths, cornerRadius : CornerRadii,
   centerImageSize : WideCenterImageSizes, centerImageIsClipArt : BOOLEAN,
   displayText : {Text(7)}, margin : Margins, px : {ModulePx}, seed : {0}]
  \cup
  [dotStyle : {"square", "dots"}, cornerStyle : {"square"}, frameStyle : {Unset, "simple"},
   centerImage : {Unset}, includeText : {TRUE},
   frameColor : FrameColors, frameWidth : FrameWidths, cornerRadius : CornerRadii,
   centerImageSize : {20}, centerImageIsClipArt : {FALSE},
   displayText : LongTexts, margin : Margins, px : WidePx, seed : {0}]

NextCaptionOverlay ==
  \/ (/\ pc = "idle" /\ UNCHANGED <<generatedQrCode, issued>>
      /\ \E o \in CaptionOverlayOptions : Generate("generator", o))
  \/ GeneratorStep

SpecCaptionOverlay == Init /\ [][NextCaptionOverlay]_vars

-----------------------------------------------------------------------------
(* Two calls of generateQrCode whose callbacks the event loop interleaves:  *)
(* the variables hold the call whose callback runs, `other` the second call *)

\* the state of the call whose callback runs
ThisCall ==
  [entry |-> entry, opts |-> opts, pc |-> pc, img |-> img, work |-> work,
   ecLevel |-> ecLevel, encCalls |-> encCalls, outcome |-> outcome,
   stageIn |-> stageIn, stageOut |-> stageOut, fault |-> fault,
   stages |-> stages, layers |-> layers]

\* a framed data URL kept in a variable of the module instead of the closure
ResumeSharedDataUrl(own, running) == [own EXCEPT !.work = running.work]

\* what a call finds when one of its callbacks runs after callbacks of another
\* call (`running`): qrCodeDataUrl, options, dataUrl, the canvases and their
\* contexts are parameters and consts of the call's own closures, and the
\* module declares nothing but functions
Resume(own, running) == own

\* the event loop runs a callback of the other call next
Switch ==
  LET r == Resume(other, ThisCall)
  IN /\ entry' = r.entry
     /\ opts' = r.opts
     /\ pc' = r.pc
     /\ img' = r.img
     /\ work' = r.work
     /\ ecLevel' = r.ecLevel
     /\ encCalls' = r.encCalls
     /\ outcome' = r.outcome
     /\ stageIn' = r.stageIn
     /\ stageOut' = r.stageOut
     /\ fault' = r.fault
     /\ stages' = r.stages
     /\ layers' = r.layers
     /\ other' = ThisCall
     /\ UNCHANGED <<generatedQrCode, issued>>

ConcurrentOptions ==
  [dotStyle : {"dots"}, cornerStyle : {"square"}, frameStyle : {"simple"},
   centerImage : {Unset, "logo"}, includeText : {TRUE},
   frameColor : FrameColors, frameWidth : FrameWidths, cornerRadius : CornerRadii,
   centerImageSize : CenterImageSizes, centerImageIsClipArt : {TRUE},
   displayText : {Text(7)}, margin : {MaxMargin}, px : {ModulePx}, seed : {0, 1}]

NextConcurrent ==
  \/ (/\ pc = "idle" /\ UNCHANGED <<generatedQrCode, issued>>
      /\ \E o \in ConcurrentOptions : Generate("generator", o))
  \/ GeneratorStep
  \/ Switch

SpecConcurrent == Init /\ [][NextConcurrent]_vars

-----------------------------------------------------------------------------
(* generateQrCode of qrCodeGenerator.ts with the numeric style options      *)
(* (frame width, corner radius) drawn from wide sets                        *)

\* options.frameWidth: missing (0) and the documented range 1-10
WideFrameWidths == {0, 1, 3, 5, 10}

\* options.cornerRadius: missing (0), inside, at and beyond the limits
WideCornerRadii == {0, 1, 10, 25, 26, 30, 31, 50}

\* rasters on which one percent of a module is a visible difference
CornerPx == {ModulePx, 5 * ModulePx}

StyleOptions ==
  [dotStyle : {"square", "dots"}, cornerStyle : {"square"}, frameStyle : {"simple", "double"},
   centerImage : {Unset, "logo"}, includeText : BOOLEAN,
   frameColor : FrameColors, frameWidth : WideFrameWidths, cornerRadius : CornerRadii,
   centerImageSize : CenterImageSizes, centerImageIsClipArt : ClipArtFlags,
   displayText : {Text(7)}, margin : Margins, px : {ModulePx}, seed : {0}]
  \cup
  [dotStyle : {"square"}, cornerStyle : {"rounded", "extraRounded"}, frameStyle : {Unset},
   centerImage : {Unset}, includeText : {FALSE},
   frameColor : FrameColors, frameWidth : FrameWidths, cornerRadius : WideCornerRadii,
   centerImageSize : CenterImageSizes, centerImageIsClipArt : ClipArtFlags,
   displayText : {Text(7)}, margin : Margins, px : CornerPx, seed : {0}]

NextStyleOptions ==
  \/ (/\ pc = "idle" /\ UNCHANGED <<generatedQrCode, issued>>
      /\ \E o \in StyleOptions : Generate("generator", o))
  \/ GeneratorStep

SpecStyleOptions == Init /\ [][NextStyleOptions]_vars

-----------------------------------------------------------------------------
(* QuickQrGenerator: Generate clicks while an earlier generation is still   *)
(* running; the variables hold the generation whose callback runs, `other`  *)
(* the second one                                                           *)

\* the options objects the clicks of the model build
QuickRequests ==
  {o \in QrCodeOptions : IsQuickOptions(o) /\ o.margin = MaxMargin /\ o.displayText = Text(7)}

\* generateSingleQrCode up to its await: the input is valid, the options
\* object is built and generateQrCode is called
generateSingleQrCode(o) ==
  /\ Generate("quick", o)
  /\ issued' = Append(issued, o)
  /\ UNCHANGED generatedQrCode

\* generateSingleQrCode after its await: setGeneratedQrCode(qrCodeDataUrl), or
\* the catch with its toast when generateQrCode has rejected
AwaitResumes ==
  /\ entry = "quick" /\ pc = "done"
  /\ pc' = "shown"
  /\ generatedQrCode' = IF outcome = "resolved" THEN img ELSE generatedQrCode
  /\ UNCHANGED <<issued, other, entry, opts, img, work, ecLevel, encCalls, outcome,
                 stageIn, stageOut, fault, stages, layers>>

\* the callbacks and continuations of a generation QuickQrGenerator started:
\* its options carry no style field, so the styling stage is never entered
QuickStep ==
  \/ EncodeOk
  \/ EncodeFail
  \/ OverlayBegin
  \/ OverlayQrError
  \/ OverlayQrLoad
  \/ OverlayCenterError
  \/ OverlayCenterLoad
  \/ CaptionBegin
  \/ CaptionError
  \/ CaptionLoad

NextQuick ==
  \/ (pc = "idle" /\ \E o \in QuickRequests : generateSingleQrCode(o))
  \/ QuickStep
  \/ AwaitResumes
  \/ Switch

SpecQuick == Init /\ [][NextQuick]_vars

-----------------------------------------------------------------------------
(* Properties *)

Range(f) == {f[i] : i \in DOMAIN f}

Rank(order, x) == CHOOSE i \in 1..Len(order) : order[i] = x

\* the log runs strictly upwards in `order`
InOrder(order, log) ==
  \A p, q \in 1..Len(log) : p < q => Rank(order, log[p]) < Rank(order, log[q])

FirstIndex(log, x) == CHOOSE i \in 1..Len(log) : log[i] = x /\ \A j \in 1..(i - 1) : log[j] # x

Encoded == img # NoImg
Quiescent == pc \in {"done", "hung"}
InGenerator == entry \in {"generator", "quick"}

\* C1: once the encoder has succeeded, a call of generateQrCode that has
\* nothing left to wait for has resolved with an image (it has neither
\* rejected nor been left pending), whatever failed in the later stages.
C1_ResolvesOnceEncoded ==
  (InGenerator /\ Encoded /\ Quiescent) => (outcome = "resolved" /\ img # NoImg)

\* C2: when the centre image fails to load, the overlay stage resolves with
\* exactly the image it was given, the call does not reject, and a requested
\* caption stage is started on that image.
C2_CenterLoadFailureDegrades ==
  (InGenerator /\ fault["overlay"] = "loadCenter") =>
     /\ stageOut["overlay"] = stageIn["overlay"]
     /\ outcome # "rejected"
     /\ IF opts.includeText
        THEN \/ (pc = "capStart" /\ img = stageIn["overlay"])
             \/ (pc \in {"capLoad", "done"} /\ stageIn["caption"] = stageIn["overlay"])
        ELSE pc = "done" /\ outcome = "resolved" /\ img = stageIn["overlay"]

C2_Witness ==
  /\ InGenerator /\ fault["overlay"] = "loadCenter"
  /\ pc = "capLoad" /\ stageIn["caption"] = stageIn["overlay"]

\* C3: with no styling feature switched on, every entry point hands the
\* encoder the level MEDIUM.
C3_NoStylingMedium ==
  (ecLevel # "none" /\ ActiveFeatures(opts) = {}) => ecLevel = "M"

\* C4: with two or more styling features switched on, the level handed to
\* the encoder is HIGH.
C4_TwoFeaturesHigh ==
  (InGenerator /\ ecLevel # "none" /\ Cardinality(ActiveFeatures(opts)) >= 2)
     => ecLevel = "H"

C4_Witness ==
  /\ entry = "generator" /\ pc = "encode" /\ ecLevel = "H"
  /\ ActiveFeatures(opts) = {"dot", "center"}

\* C5: with at least one styling feature switched on, the level handed to
\* the encoder is QUARTILE or HIGH.
C5_OneFeatureAtLeastQuartile ==
  (InGenerator /\ ecLevel # "none" /\ ActiveFeatures(opts) # {})
     => ecLevel \in {"Q", "H"}

C5_Witness ==
  /\ entry = "generator" /\ pc = "encode" /\ ecLevel = "Q"
  /\ ActiveFeatures(opts) = {"center"}

\* the inputs the policy reads
PolicyInputs ==
  [dotStyle : DotStyles, cornerStyle : CornerStyles, centerImage : CenterImages]

\* C6: the policy is monotonic: options with a superset of the active
\* features of the call's options never get a lower level than the call got.
C6_Monotonic ==
  (InGenerator /\ ecLevel # "none") =>
     \A b \in PolicyInputs :
        ActiveFeatures(opts) \subseteq ActiveFeatures(b)
           => LevelRank(ecLevel) <= LevelRank(errorCorrectionLevel(b))

LayerOrder == <<"background", "frame", "modules", "finders", "overlay", "caption">>

Styled ==
  /\ InGenerator /\ ~ NoStylingRequested(opts)
  /\ stageOut["style"] # NoImg /\ fault["style"] = "none"

\* colour of the styled output at the centre of module (r, c) of the grid
ModuleSample(r, c) ==
  LET out == stageOut["style"]
      o == CodeOffset(out) + opts.margin * opts.px
  IN Pixel(out, o + c * opts.px + opts.px \div 2, o + r * opts.px + opts.px \div 2)

\* C9: in the styled output each of the three finder patterns shows the
\* nested 7:5:3 structure: a dark ring, a light ring inset one module and a
\* dark 3 x 3 core inset two modules, for every corner and dot style.
C9_FinderStructure ==
  Styled =>
     \A f \in FinderOrigins : \A i, j \in 0..6 :
        (ModuleSample(f[1] + i, f[2] + j) = "fg") <=> FinderDark(i, j)

\* C10: in the styled output the pixel at the centre of every dark module of
\* the source grid has the foreground colour, and that of every light module
\* has not.
C10_ModuleBitsKept ==
  Styled =>
     \A r, c \in 0..(SymbolSize - 1) :
        (ModuleSample(r, c) = "fg") <=> GridDark(opts.seed, r, c)

\* the overlay stage has drawn the centre image
OverlayDrawn ==
  /\ InGenerator /\ fault["overlay"] = "none"
  /\ stageOut["overlay"] # NoImg /\ stageOut["overlay"] # stageIn["overlay"]

\* number of pixels of the row (column) just before the middle of the overlay
\* stage's output that show the centre image
LogoColumns ==
  LET out == stageOut["overlay"]
  IN Cardinality({x \in 0..(ImgW(out) - 1) : Pixel(out, x, (ImgH(out) - 1) \div 2) = "logo"})

LogoRows ==
  LET out == stageOut["overlay"]
  IN Cardinality({y \in 0..(ImgH(out) - 1) : Pixel(out, (ImgW(out) - 1) \div 2, y) = "logo"})

\* n pixel centres lie in an interval of `len` units
Spans(n, len) == n * Unit > len - Unit /\ n * Unit < len + Unit

\* C11: whatever centerImageSize is requested, the overlay stage uses a
\* percentage in [1, 25] (the request itself when it lies in that range, 25
\* above it, 1 for a negative one) and the overlay size is that percentage of
\* the width of the image the stage was given; the centre image is drawn at
\* that size (clip art) or at 95% of it.
C11_OverlaySizeClamped ==
  OverlayDrawn =>
     LET req == opts.centerImageSize
         w == ImgW(stageIn["overlay"]) * Unit
         columns == LogoColumns
         rows == LogoRows
     IN \E pct \in 1..25 :
          /\ (req \in 1..25 => pct = req)
          /\ (req > 25 => pct = 25)
          /\ (req < 0 => pct = 1)
          /\ LET size == (pct * w) \div 100
                 draw == IF opts.centerImageIsClipArt THEN size ELSE (size * 95) \div 100
             IN Spans(columns, draw) /\ Spans(rows, draw)

C11_Witness ==
  OverlayDrawn /\ opts.centerImageSize = 99 /\ LogoColumns > 0

\* what applyQrCodeStyling resolves with when it is given qrCodeDataUrl and
\* options o and meets the failure f ("none": no failure)
StyleResult(qrCodeDataUrl, o, f, native) ==
  LET framed == IF FrameRequested(o) THEN Append(qrCodeDataUrl, FrameLayer(o))
                ELSE qrCodeDataUrl
      dotsApplied == DotsRequested(o) /\ f \notin {"ctxTemp", "ctxTempCorner"}
      cornersApplied == CornersRequested(o) /\ f \notin {"ctxCorner", "ctxTempCorner"}
  IN IF NoStylingRequested(o) \/ f \in {"throw", "ctx", "loadQr"} THEN qrCodeDataUrl
     ELSE IF f = "loadFramed" \/ (~ DotsRequested(o) /\ ~ CornersRequested(o)) THEN framed
     ELSE Append(framed, StyleLayer(o, dotsApplied, cornersApplied, native))

\* did the styling stage's output use the native roundRect
NativeUsed(out) == out[Len(out)].k = "style" /\ out[Len(out)].nativeRR

\* C12: with a simple or double frame the styled output is 2 x frameSize
\* wider and taller than the styled code without frame, and shows that code,
\* pixel for pixel, at offset (frameSize, frameSize), for every dot and
\* corner style.
C12_FrameKeepsStyledCode ==
  (Styled /\ opts.frameStyle \in {"simple", "double"}) =>
     LET out == stageOut["style"]
         plain == StyleResult(stageIn["style"], [opts EXCEPT !.frameStyle = "none"],
                              "none", NativeUsed(out))
         frameSize == FrameSize(ImgW(plain))
     IN /\ ImgW(out) = ImgW(plain) + 2 * frameSize
        /\ ImgH(out) = ImgH(plain) + 2 * frameSize
        /\ \A x \in 0..(ImgW(plain) - 1), y \in 0..(ImgH(plain) - 1) :
              Pixel(out, x + frameSize, y + frameSize) = Pixel(plain, x, y)

\* C16: when frame compositing has succeeded and the dot and corner styling
\* that follows fails on an exception or a missing 2D context, the styling
\* stage resolves with the framed image.
C16_FailureKeepsFramedImage ==
  (/\ InGenerator /\ work # NoImg
   /\ stageOut["style"] # NoImg /\ fault["style"] \in {"ctx", "throw"})
     => stageOut["style"] = work

\* C19: with a dot style that is none of square, dots and rounded, the styled
\* output is, pixel for pixel, the one of dotStyle square.
C19_UnknownDotStyleIsSquare ==
  (Styled /\ opts.dotStyle \notin {Unset, "square", "dots", "rounded"}) =>
     LET out == stageOut["style"]
         square == StyleResult(stageIn["style"], [opts EXCEPT !.dotStyle = "square"],
                               "none", FALSE)
     IN /\ ImgW(out) = ImgW(square) /\ ImgH(out) = ImgH(square)
        /\ \A x \in 0..(ImgW(out) - 1), y \in 0..(ImgH(out) - 1) :
              Pixel(out, x, y) = Pixel(square, x, y)

\* C20: with a simple frame every pixel of the ring of width frameSize along
\* the edges of the styled output has the frame colour (the foreground colour
\* when no frame colour is set), for every dot and corner style.
C20_SimpleFrameRing ==
  (Styled /\ opts.frameStyle = "simple") =>
     LET out == stageOut["style"]
         w == ImgW(out)
         h == ImgH(out)
         frameSize == FrameSize(ImgW(stageIn["style"]))
     IN \A x \in 0..(w - 1), y \in 0..(h - 1) :
          (x < frameSize \/ x >= w - frameSize \/ y < frameSize \/ y >= h - frameSize)
             => Pixel(out, x, y) = FrameLayer(opts).color

\* the caption stage has drawn the caption
CaptionDrawn ==
  /\ InGenerator /\ fault["caption"] = "none"
  /\ stageOut["caption"] # NoImg /\ stageOut["caption"] # stageIn["caption"]

\* the coordinates below n that lie in the middle of a run of `step`
SampleCoords(n, step) == {i \in 0..(n - 1) : i % step = step \div 2}

\* C13: the output of the caption stage has the width of its input and the
\* height of its input plus 40, shows the input unchanged and unscaled at
\* (0, 0), and no pixel the caption text can touch lies above the added
\* strip, for every width and font size.  (Checked on a grid of pixels four
\* modules apart and, in the left, the middle and the right column, on every
\* row from 16 above the strip downwards.)
C13_CaptionKeepsImage ==
  CaptionDrawn =>
     LET in == stageIn["caption"]
         out == stageOut["caption"]
         h == ImgH(in)
     IN /\ ImgW(out) = ImgW(in) /\ ImgH(out) = h + 40
        /\ \A x \in SampleCoords(ImgW(out), 4 * opts.px), y \in SampleCoords(h, 4 * opts.px) :
              Pixel(out, x, y) = Pixel(in, x, y)
        /\ \A x \in {0, (ImgW(out) - 1) \div 2, ImgW(out) - 1}, y \in (h - 16)..(h + 39) :
              /\ y < h => Pixel(out, x, y) = Pixel(in, x, y)
              /\ Pixel(out, x, y) = "text" => y \in h..(h + 39)

C13_Witness ==
  /\ CaptionDrawn /\ fontSize(ImgW(stageIn["caption"])) = 16
  /\ \E y \in 0..(ImgH(stageOut["caption"]) - 1) :
        Pixel(stageOut["caption"], (ImgW(stageOut["caption"]) - 1) \div 2, y) = "text"

\* C14: a caption of more than 50 characters is rendered as its first 47
\* characters followed by the single character U+2026 (horizontal ellipsis);
\* a caption of at most 50 characters is rendered unchanged.
C14_TruncatesWithEllipsis ==
  CaptionDrawn =>
     LET text == opts.displayText
         out == stageOut["caption"]
     IN out[Len(out)].text =
          IF Len(text) > 50 THEN SubSeq(text, 1, 47) \o <<"U+2026">> ELSE text

\* the encoder has been called and has failed
EncoderFailed == InGenerator /\ pc # "encode" /\ img = NoImg

\* C15: when the encoder fails, generateQrCode rejects, the encoder has been
\* invoked exactly once, and no styling, frame, overlay or caption stage has
\* been started.
C15_EncoderFailureIsFatal ==
  EncoderFailed =>
     /\ outcome = "rejected" /\ pc = "done"
     /\ encCalls = 1
     /\ stages = << >>
     /\ \A s \in StageNames : stageIn[s] = NoImg /\ stageOut[s] = NoImg

C15_Witness ==
  /\ EncoderFailed /\ outcome = "rejected"
  /\ FrameRequested(opts) /\ DotsRequested(opts)
  /\ Truthy(opts.centerImage) /\ opts.includeText

\* C18: every call of generateQrCode settles in the end, whatever the style
\* options, the outcome of each image load and of each request for a 2D
\* context, provided every started load fires onload or onerror.
C18_EventuallySettles ==
  (InGenerator /\ outcome = "pending") ~> (outcome \in {"resolved", "rejected"})

\* what generateQrCode resolves with when it runs alone with options o and
\* its stages meet the failures flt
RunAlone(o, flt) ==
  LET encoded == BaseImage(o)
      styled == IF Requested("generator", "style", o)
                THEN StyleResult(encoded, o, flt["style"], FALSE) ELSE encoded
      overlaid == IF Requested("generator", "overlay", o) /\ flt["overlay"] = "none"
                  THEN Append(styled, OverlayLayer(o, FALSE)) ELSE styled
  IN IF Requested("generator", "caption", o) /\ flt["caption"] = "none"
     THEN Append(overlaid, CaptionLayer(o)) ELSE overlaid

\* C17: two calls of generateQrCode interleaved at their image loads do not
\* disturb each other: each resolves with the image it would resolve with if
\* it ran alone with the same options and the same outcomes of its loads.
C17_NoInterference ==
  \A c \in {ThisCall, other} :
     (c.entry = "generator" /\ c.outcome = "resolved") => c.img = RunAlone(c.opts, c.fault)

C17_Witness ==
  /\ outcome = "resolved" /\ other.outcome = "resolved"
  /\ opts.seed # other.opts.seed
  /\ stages = <<"encode", "frame", "style", "overlay", "caption">>
  /\ other.stages = <<"encode", "frame", "style", "caption">>
  /\ img = RunAlone(opts, NoFaults) /\ other.img = RunAlone(other.opts, NoFaults)

\* the stage outputs on which a frame is the last thing composited
FramedImages ==
  {s \in {stageOut["style"], stageOut["frame"]} : s # NoImg /\ s[Len(s)].k = "frame"}

\* the colour shared by all pixels that lie d pixels in from the edge of the
\* image, "mixed" when they differ
RingColour(im, d) ==
  LET w == ImgW(im)
      h == ImgH(im)
      seen == {Pixel(im, x, d) : x \in d..(w - 1 - d)}
              \cup {Pixel(im, x, h - 1 - d) : x \in d..(w - 1 - d)}
              \cup {Pixel(im, d, y) : y \in d..(h - 1 - d)}
              \cup {Pixel(im, w - 1 - d, y) : y \in d..(h - 1 - d)}
  IN IF Cardinality(seen) = 1 THEN CHOOSE c \in seen : TRUE ELSE "mixed"

\* C21: a double frame shows, from the edge of the final framed image
\* inwards and outside the modules of the code, three concentric rings of
\* non-zero width: an outer border in the frame colour, a gap in the
\* background colour and an inner border in the frame colour, whenever
\* frameSize >= 2.  (A ring is a depth at which every pixel has the colour;
\* a depth the edge of a fill cuts through counts for neither side.)
C21_DoubleFrameThreeRings ==
  \A out \in FramedImages :
     LET top == out[Len(out)]
         under == SubSeq(out, 1, Len(out) - 1)
         frameSize == FrameSize(ImgW(under))
         depth == frameSize + CodeOffset(under) + opts.margin * opts.px
         ring == [d \in 0..(depth - 1) |-> RingColour(out, d)]
     IN (pc = "done" /\ top.style = "double" /\ frameSize >= 2) =>
           \E a, b, c \in 0..(depth - 1) :
              /\ a < b /\ b < c
              /\ ring[a] = top.color /\ ring[b] = "bg" /\ ring[c] = top.color

\* C22: for every requested frame width p in 1..10 and every code width the
\* frame compositor uses frameSize = floor(codeWidth * p / 100): the framed
\* image is that much larger on each side than the image it frames.
C22_FrameWidthDeterminesSize ==
  \A out \in FramedImages :
     LET under == SubSeq(out, 1, Len(out) - 1)
         codeWidth == ImgW(under)
     IN opts.frameWidth \in 1..10 =>
          ImgW(out) = codeWidth + 2 * ((codeWidth * opts.frameWidth) \div 100)

\* the box, in units, of the finder pattern with origin f in an image whose
\* code starts at pixel offset off
FinderBox(f, off, o) ==
  <<(off + (o.margin + f[2]) * o.px) * Unit, (off + (o.margin + f[1]) * o.px) * Unit,
    7 * o.px * Unit>>

\* C23: the three finder boxes the renderer uses (top-left, top-right and
\* bottom-left) are squares of side exactly 7 modules at the positions of
\* the finder patterns of the grid, for every margin and image width.
C23_FinderBoxesExact ==
  (Styled /\ stageOut["style"][Len(stageOut["style"])].k = "style") =>
     LET out == stageOut["style"]
         canvas == SubSeq(out, 1, Len(out) - 1)
         off == CodeOffset(canvas)
     IN finderPositions(ImgW(canvas), ImgH(canvas))
          = << FinderBox(<<0, 0>>, off, opts),
               FinderBox(<<0, SymbolSize - 7>>, off, opts),
               FinderBox(<<SymbolSize - 7, 0>>, off, opts) >>

\* does module (r, c) lie in a finder pattern padded by one module
InPaddedFinder(r, c) ==
  \E f \in FinderOrigins : r - f[1] \in -1..7 /\ c - f[2] \in -1..7

\* C24: with dot style dots or rounded (and no corner style, so that the
\* module renderer's canvas is the output) every dark module outside the
\* three finder patterns padded by one module shows a dot, and every light
\* module and every module inside a padded finder pattern shows nothing.
C24_DotForEveryDarkModule ==
  (Styled /\ opts.dotStyle \in {"dots", "rounded"} /\ ~ CornersRequested(opts)) =>
     \A r, c \in 0..(SymbolSize - 1) :
        ModuleSample(r, c) =
           IF GridDark(opts.seed, r, c) /\ ~ InPaddedFinder(r, c) THEN "fg" ELSE "bg"

\* the corner styling block has redrawn the finder patterns
CornersDrawn ==
  /\ Styled /\ stageOut["style"][Len(stageOut["style"])].k = "style"
  /\ stageOut["style"][Len(stageOut["style"])].corner \in {"rounded", "extraRounded"}

\* C25: for every requested cornerRadius (1 and above) the radius the outer
\* square of a finder pattern is rounded with is clamp(cornerRadius, 1, 30)
\* percent of one module for cornerStyle rounded and 1.5 times that for
\* extraRounded.
C25_CornerRadiusClamped ==
  (CornersDrawn /\ opts.cornerRadius >= 1) =>
     LET out == stageOut["style"]
         top == out[Len(out)]
         canvas == SubSeq(out, 1, Len(out) - 1)
         pct == IF opts.cornerRadius > 30 THEN 30 ELSE opts.cornerRadius
         rounded == (opts.px * Unit * pct) \div 100
     IN CornerRadiusUnits(top.corner, top.cornerRadius, moduleEstimate(ImgW(canvas)))
          = IF opts.cornerStyle = "rounded" THEN rounded ELSE (rounded * 3) \div 2

\* the pixels of the styled output that lie wholly inside finder box i within
\* q pixels of its corner c ("tl", "tr", "bl" or "br")
CornerPatch(i, c, q) ==
  LET out == stageOut["style"]
      fp == finderPositions(ImgW(out), ImgH(out))
      x1 == (fp[i][1] + Unit - 1) \div Unit
      x2 == ((fp[i][1] + fp[i][3]) \div Unit) - 1
      y1 == (fp[i][2] + Unit - 1) \div Unit
      y2 == ((fp[i][2] + fp[i][3]) \div Unit) - 1
  IN {Pixel(out, IF c \in {"tl", "bl"} THEN x1 + dx ELSE x2 - dx,
                 IF c \in {"tl", "tr"} THEN y1 + dy ELSE y2 - dy) :
        dx \in 0..(q - 1), dy \in 0..(q - 1)}

\* the corner of finder box i that faces away from the symbol
Outward(i) == IF i = 1 THEN "tl" ELSE IF i = 2 THEN "tr" ELSE "bl"

\* C26: with cornerStyle rounded or extraRounded the outer square of each of
\* the three finder boxes has exactly one rounded corner, the one that faces
\* outwards (top-left of the top-left box, top-right of the top-right box,
\* bottom-left of the bottom-left box): the other three corners are filled
\* to the corner pixel, and the outward one is cut as soon as the radius
\* reaches five pixels.
C26_OnlyOutwardCornerRounded ==
  CornersDrawn =>
     LET out == stageOut["style"]
         top == out[Len(out)]
         me == moduleEstimate(ImgW(out))
         r == CornerRadiusUnits(top.corner, top.cornerRadius, me)
     IN \A i \in 1..3 :
          /\ \A c \in {"tl", "tr", "bl", "br"} \ {Outward(i)} :
                CornerPatch(i, c, me \div 2) = {"fg"}
          /\ r >= 5 * Unit => "bg" \in CornerPatch(i, Outward(i), 1)

C26_Witness ==
  /\ CornersDrawn /\ opts.px = 5 * ModulePx /\ opts.cornerRadius = 30
  /\ opts.cornerStyle = "rounded"
  /\ \A i \in 1..3 : /\ CornerPatch(i, Outward(i), 1) = {"bg"}
                      /\ CornerPatch(i, "br", 1) = {"fg"}

\* the pixels of an image of w x h pixels whose centres lie, on both axes,
\* more than 50% and at most 55% of `size` units from the centre of the
\* image: they are inside a rounded rectangle of side 1.2 x size with corner
\* radius 0.15 x size, outside a circle of radius 0.6 x size and outside the
\* centre image
DiagonalPatches(w, h, size) ==
  LET Off(p, n) == IF Centre(p) >= (n * Unit) \div 2 THEN Centre(p) - (n * Unit) \div 2
                   ELSE (n * Unit) \div 2 - Centre(p)
      Near(p, n) == 100 * Off(p, n) > 50 * size /\ 100 * Off(p, n) <= 55 * size
  IN {x \in 0..(w - 1) : Near(x, w)} \X {y \in 0..(h - 1) : Near(y, h)}

\* the pixels of the middle row whose centres lie between 52% and 58% of
\* `size` units from the centre: inside both shapes, outside the centre image
AxisPatch(w, h, size) ==
  LET Off(p) == IF Centre(p) >= (w * Unit) \div 2 THEN Centre(p) - (w * Unit) \div 2
                ELSE (w * Unit) \div 2 - Centre(p)
  IN {x \in 0..(w - 1) : 100 * Off(x) >= 52 * size /\ 100 * Off(x) <= 58 * size}
       \X {(h - 1) \div 2}

\* the percentage the claim calls clamped: the request (20 when missing)
\* brought into [1, 25]
ClampedPercent(req) ==
  LET r == IF req = 0 THEN 20 ELSE req
  IN IF r < 1 THEN 1 ELSE IF r > 25 THEN 25 ELSE r

\* C27: the background the overlay stage paints behind the centre image is
\* a circle exactly when the image is clip art or the clamped percentage is
\* below 15, and a rounded rectangle otherwise: next to the image on the
\* middle row the output is background in both cases, and on the diagonals,
\* between the circle and the corners of the rectangle, the output is
\* background for the rectangle and the untouched input for the circle.
C27_BackgroundShape ==
  OverlayDrawn =>
     LET in == stageIn["overlay"]
         out == stageOut["overlay"]
         w == ImgW(in)
         h == ImgH(in)
         pct == ClampedPercent(opts.centerImageSize)
         size == (pct * w * Unit) \div 100
         circle == opts.centerImageIsClipArt \/ pct < 15
     IN /\ \A p \in AxisPatch(w, h, size) : Pixel(out, p[1], p[2]) = "bg"
        /\ \A p \in DiagonalPatches(w, h, size) :
              Pixel(out, p[1], p[2]) = IF circle THEN Pixel(in, p[1], p[2]) ELSE "bg"

C27_Witness ==
  /\ OverlayDrawn /\ opts.centerImageSize = 99 /\ ~ opts.centerImageIsClipArt
  /\ \E p \in DiagonalPatches(ImgW(stageIn["overlay"]), ImgH(stageIn["overlay"]),
                               (25 * ImgW(stageIn["overlay"]) * Unit) \div 100) :
        /\ Pixel(stageIn["overlay"], p[1], p[2]) = "fg"
        /\ Pixel(stageOut["overlay"], p[1], p[2]) = "bg"

\* number of pixels of the row just before the middle of an image that show
\* the centre image
LogoWidth(im) ==
  Cardinality({x \in 0..(ImgW(im) - 1) : Pixel(im, x, (ImgH(im) - 1) \div 2) = "logo"})

\* C28: the size at which the centre image is drawn never decreases when the
\* requested centerImageSize increases, 0 and negative requests included:
\* every smaller request, given the same image, is drawn no wider than the
\* request of this call.
C28_OverlaySizeMonotonic ==
  OverlayDrawn =>
     LET in == stageIn["overlay"]
         out == stageOut["overlay"]
     IN \A smaller \in WideCenterImageSizes :
          smaller <= opts.centerImageSize =>
            LogoWidth(Append(in, OverlayLayer([opts EXCEPT !.centerImageSize = smaller],
                                              out[Len(out)].nativeRR)))
              <= LogoWidth(out)

\* both Generate requests of QuickQrGenerator have completed with an image
BothShown ==
  /\ Len(issued) = 2 /\ issued[1] # issued[2]
  /\ pc = "shown" /\ other.pc = "shown"
  /\ outcome = "resolved" /\ other.outcome = "resolved"

\* C29: once all Generate requests of QuickQrGenerator have completed, in
\* whatever order, generatedQrCode is the result of the request issued last,
\* never that of an earlier request that finished later.
C29_LatestRequestDisplayed ==
  BothShown =>
     \A c \in {ThisCall, other} : c.opts = issued[2] => generatedQrCode = c.img

\* C30: in the pipeline of qrCodeStyling.ts, when the styling library yields
\* no image (no blob, or a failed raw-data request), generateStyledQrCode
\* and with it generateQrCode reject: a call that has nothing left to wait
\* for and has no image has rejected, it is not left pending.
C30_LibraryFailureRejects ==
  (entry = "styling" /\ Quiescent /\ img = NoImg) => outcome = "rejected"

====
